---- MODULE Spec2Model ----
(***************************************************************************)
(* Model of src/hashing.py: UniversalHashFunction and HashTableChaining    *)
(* (separate chaining, per-instance universal hashing, dynamic resizing).  *)
(* One action per public method; a method call is one atomic step, the     *)
(* table being single-threaded and every method running to completion.     *)
(* Model of src/quicksort.py: randomized_quicksort, one action per call of *)
(* the function (its base case, or its pivot choice and partition).        *)
(***************************************************************************)
EXTENDS Integers, Sequences, FiniteSets, TLC

\* ------------------------------------------------------------------ bounds
\* Keys are the integers -1..MaxKey.
MaxKey == 1
\* Inserts and deletes that would resize are disabled once num_resizes
\* reached MaxResizes, or if the new capacity would exceed MaxCapacity.
MaxResizes == 2
MaxCapacity == 64
\* Calls that would raise num_collisions above MaxCollisions are disabled.
MaxCollisions == 1
\* The table built with the default arguments is filled with the keys
\* 1..MaxDefaultKeys, under its own bounds on the two counters.
MaxDefaultKeys == 13
MaxDefaultResizes == 3
MaxDefaultCollisions == 6
\* randomized_quicksort is called on the lists of at most MaxSortLen
\* integers of 1..MaxSortVal.
MaxSortLen == 4
MaxSortVal == 3

Keys == (0 - 1)..MaxKey
Value(i) == <<"value", i>>
\* The values stored: the code never inspects a value (it only stores,
\* replaces and returns it), so two distinct values tell an old value from a
\* new one and more add nothing.
Values == {Value(1), Value(2)}
\* Python's None (search's not-found result, the result of insert).
None == <<"None">>

\* ------------------------------------------------------- program constants
\* UniversalHashFunction.__init__: prime: int = 2147483647
DefaultPrime == 2147483647
\* delete: "... and self.capacity > 16"
ShrinkFloor == 16
\* delete: "self._get_load_factor() < 0.25", as the fraction 1/4
ShrinkNum == 1
ShrinkDen == 4

\* max_load_factor is a float in the code; here the exact fraction num/den
\* (den > 0).  All fractions used are dyadic, so the float comparison of
\* size / capacity against them agrees with the exact comparison.
Frac(n, d) == [num |-> n, den |-> d]

\* Constructor arguments <<initial_capacity, max_load_factor>> of the valid
\* tables (both positive): growth from a single bucket, with chains that may
\* grow long; shrink below and growth above 17 buckets; shrink from 32.
ValidArgs == {<<1, Frac(3, 4)>>, <<1, Frac(2, 1)>>,
              <<17, Frac(1, 8)>>, <<32, Frac(3, 4)>>}
\* Constructor arguments section 7 of the design calls configuration errors.
InvalidArgs == {<<0, Frac(3, 4)>>, <<0 - 1, Frac(3, 4)>>, <<1, Frac(0, 1)>>,
                <<0, Frac(0, 1)>>, <<0 - 2, Frac(0 - 1, 2)>>}

\* random.randint(1, p-1), random.randint(0, p-1): the pairs <<a, b>> drawn.
\* With them a * key + b is an exact 32-bit integer for every key in -4..4,
\* is negative for the negative keys and equals p for <<536870911, 3>> and
\* key 4, so that the reduction modulo p is exercised on both sides; Python
\* integers are unbounded, so the code computes the sum exactly.
Coeffs == {<<3, 1>>, <<536870911, 3>>}

\* __init__: "initial_capacity: int = 16, max_load_factor: float = 0.75"
DefaultCapacity == 16
DefaultMaxLoadFactor == Frac(3, 4)

\* The pairs <<a, b>> drawn for the table built with the defaults: with
\* <<3, 1>> the keys 1..14 fall into distinct buckets of 16 and of 32, with
\* <<12, 1>> into 4 buckets of 16 and 8 buckets of 32, so that inserts and
\* the rehashes of a growth and of a shrink collide.
DefaultCoeffs == {<<3, 1>>, <<12, 1>>}

\* ------------------------------------------------------------ Python basics
\* Python's x % n: the result has the sign of the divisor n (n # 0).
PyMod(x, n) == IF n > 0 THEN x % n ELSE 0 - ((0 - x) % (0 - n))

\* len([[] for _ in range(n)])
RangeLen(n) == IF n > 0 THEN n ELSE 0

\* [[] for _ in range(n)]
EmptyTable(n) == [i \in 1..RangeLen(n) |-> <<>>]

\* list[index] of a list of length len: TRUE iff Python raises IndexError.
IndexError(index, len) == index >= len \/ index < 0 - len

\* The 1-based position of list[index] (Python's negative indices wrap).
ListPos(index, len) == IF index >= 0 THEN index + 1 ELSE index + len + 1

\* ---------------------------------------------------- UniversalHashFunction
\* UniversalHashFunction(table_size) with the drawn coefficients c = <<a, b>>.
UniversalHashFunction(table_size, c) ==
    [m |-> table_size, p |-> DefaultPrime, a |-> c[1], b |-> c[2]]

\* hash(): the key is an int here, so key_int = key.
KeyInt(key) == key

\* hash() raises ZeroDivisionError when m = 0.
HashRaises(hf) == hf.m = 0

\* Mutant of Hash: the reduction modulo the table size is missing.
HashNoTableMod(hf, key) == PyMod(hf.a * KeyInt(key) + hf.b, hf.p)

\* ((self.a * key_int + self.b) % self.p) % self.m
Hash(hf, key) == PyMod(PyMod(hf.a * KeyInt(key) + hf.b, hf.p), hf.m)

\* ---------------------------------------------------------------- state
VARIABLES
    capacity,          \* self.capacity
    max_load_factor,   \* self.max_load_factor, a fraction [num, den]
    size,              \* self.size
    table,             \* self.table: sequence of chains of <<key, value>>
    hash_func,         \* self.hash_func: [m, p, a, b]
    num_collisions,    \* self.num_collisions
    num_resizes,       \* self.num_resizes
    initial_capacity,  \* history: the constructor's initial_capacity argument
    call,              \* history: the last call, see Called
    shadow,            \* history: key -> value of the last insert of the key
                       \*          not followed by a delete of it, else None
    arr,               \* quicksort: the argument of the outermost call
    work               \* quicksort: the parts of the result, left to right:
                       \*   lists returned and arguments of calls to come

tableVars == <<capacity, max_load_factor, size, table, hash_func,
               num_collisions, num_resizes>>
vars == <<capacity, max_load_factor, size, table, hash_func,
          num_collisions, num_resizes, initial_capacity, call, shadow,
          arr, work>>

\* The mutable fields of the table object as one record.
Self == [capacity |-> capacity, size |-> size, table |-> table,
         hash_func |-> hash_func, num_collisions |-> num_collisions,
         num_resizes |-> num_resizes]

\* HashTableChaining.__init__ with the drawn hash coefficients c.
NewTable(cap, c) ==
    [capacity |-> cap, size |-> 0, table |-> EmptyTable(cap),
     hash_func |-> UniversalHashFunction(cap, c),
     num_collisions |-> 0, num_resizes |-> 0]

\* ------------------------------------------------------- HashTableChaining
\* _get_load_factor() >= f, with _get_load_factor() =
\* size / capacity if capacity > 0 else 0.
LoadFactorGE(st, f) ==
    IF st.capacity > 0 THEN st.size * f.den >= f.num * st.capacity
                       ELSE 0 >= f.num

\* _get_load_factor() < 0.25
LoadFactorLTShrink(st) ==
    IF st.capacity > 0 THEN st.size * ShrinkDen < ShrinkNum * st.capacity
                       ELSE 0 < ShrinkNum

\* "for i, (k, v) in enumerate(chain): if k == key": the 1-based position of
\* the first entry of the chain with that key, 0 when there is none.
FindKey(chain, key) ==
    IF \E i \in 1..Len(chain) : chain[i][1] = key
    THEN CHOOSE i \in 1..Len(chain) :
            /\ chain[i][1] = key
            /\ \A j \in 1..(i - 1) : chain[j][1] # key
    ELSE 0

\* Mutant of SetEntry: the existing entry keeps its old value.
SetEntryStale(chain, i, key, value) == chain

\* Mutant of SetEntry: the pair is appended and the old entry stays.
SetEntryAppends(chain, i, key, value) == Append(chain, <<key, value>>)

\* chain[i] = (key, value)
SetEntry(chain, i, key, value) == [chain EXCEPT ![i] = <<key, value>>]

\* Mutant of Pop: pops the last entry of the chain instead of entry i.
PopLast(chain, i) == SubSeq(chain, 1, Len(chain) - 1)

\* chain.pop(i)
Pop(chain, i) == [j \in 1..(Len(chain) - 1) |->
                    IF j < i THEN chain[j] ELSE chain[j + 1]]

\* Mutant of InsertNoResize: a new pair replaces the chain instead of being
\* appended to it.
InsertNoResizeOverwrites(st, key, value) ==
    LET pos == Hash(st.hash_func, key) + 1
        chain == st.table[pos]
        i == FindKey(chain, key)
    IN  IF i > 0
        THEN [st EXCEPT !.table[pos] = SetEntry(chain, i, key, value)]
        ELSE [st EXCEPT !.table[pos] = <<<<key, value>>>>,
                        !.num_collisions =
                            @ + (IF Len(chain) > 0 THEN 1 ELSE 0)]

\* Mutant of InsertNoResize: an append during the rehash counts no collision.
InsertNoResizeCountsNothing(st, key, value) ==
    LET pos == Hash(st.hash_func, key) + 1
        chain == st.table[pos]
        i == FindKey(chain, key)
    IN  IF i > 0
        THEN [st EXCEPT !.table[pos] = SetEntry(chain, i, key, value)]
        ELSE [st EXCEPT !.table[pos] = Append(chain, <<key, value>>)]

\* _insert_no_resize(key, value).  It is only called while rehashing a
\* non-empty old table, when the new capacity is positive, so that hash()
\* returns an index in 0..capacity-1.
InsertNoResize(st, key, value) ==
    LET pos == Hash(st.hash_func, key) + 1
        chain == st.table[pos]
        i == FindKey(chain, key)
    IN  IF i > 0
        THEN [st EXCEPT !.table[pos] = SetEntry(chain, i, key, value)]
        ELSE [st EXCEPT !.table[pos] = Append(chain, <<key, value>>),
                        !.num_collisions =
                            @ + (IF Len(chain) > 0 THEN 1 ELSE 0)]

\* "for chain in old_table: for key, value in chain": the pairs in the order
\* the rehash visits them.
RECURSIVE Pairs(_, _)
Pairs(old_table, i) ==
    IF i > Len(old_table) THEN <<>>
    ELSE old_table[i] \o Pairs(old_table, i + 1)

\* The rehash loop of _resize over the remaining pairs.
RECURSIVE Rehash(_, _)
Rehash(st, pairs) ==
    IF pairs = <<>> THEN st
    ELSE Rehash(InsertNoResize(st, Head(pairs)[1], Head(pairs)[2]),
                Tail(pairs))

\* Mutant of Resize: self.hash_func is not replaced.
ResizeKeepsHashFunc(st, new_capacity, c) ==
    LET fresh == [st EXCEPT !.num_resizes = @ + 1,
                            !.capacity = new_capacity,
                            !.table = EmptyTable(new_capacity),
                            !.size = 0]
        rehashed == Rehash(fresh, Pairs(st.table, 1))
    IN  [rehashed EXCEPT !.size = st.size]

\* Mutant of Resize: self.num_resizes is not incremented.
ResizeUncounted(st, new_capacity, c) ==
    LET fresh == [st EXCEPT !.capacity = new_capacity,
                            !.table = EmptyTable(new_capacity),
                            !.hash_func = UniversalHashFunction(new_capacity, c),
                            !.size = 0]
        rehashed == Rehash(fresh, Pairs(st.table, 1))
    IN  [rehashed EXCEPT !.size = st.size]

\* Mutant of Resize: self.size is not restored after the rehash.
ResizeLosesSize(st, new_capacity, c) ==
    LET fresh == [st EXCEPT !.num_resizes = @ + 1,
                            !.capacity = new_capacity,
                            !.table = EmptyTable(new_capacity),
                            !.hash_func = UniversalHashFunction(new_capacity, c),
                            !.size = 0]
    IN  Rehash(fresh, Pairs(st.table, 1))

\* _resize(new_capacity) with the coefficients c drawn for the new hash
\* function.
Resize(st, new_capacity, c) ==
    LET fresh == [st EXCEPT !.num_resizes = @ + 1,
                            !.capacity = new_capacity,
                            !.table = EmptyTable(new_capacity),
                            !.hash_func = UniversalHashFunction(new_capacity, c),
                            !.size = 0]
        rehashed == Rehash(fresh, Pairs(st.table, 1))
    IN  [rehashed EXCEPT !.size = st.size]

\* The outcome of a call: the table afterwards, the returned value, the
\* exception raised ("none" when the call returns), the index hash() returned
\* (<<index>>, or <<>> when it raised or was not called), whether the key was found in its
\* chain, and whether the call went through _resize.
Outcome(st, res, exc, idx, found, resized) ==
    [st |-> st, result |-> res, raised |-> exc, index |-> idx,
     existed |-> found, resized |-> resized]

\* "index = self.hash_func.hash(key); chain = self.table[index]": the
\* exception raised ("none" when the chain is reached), the index hash()
\* returned (<<index>>, and <<>> when hash() itself raised) and the 1-based
\* position in self.table of the chain.
Locate(st, key) ==
    IF HashRaises(st.hash_func)
    THEN [raised |-> "ZeroDivisionError", index |-> <<>>, pos |-> 0]
    ELSE LET index == Hash(st.hash_func, key)
             len == Len(st.table)
         IN  IF IndexError(index, len)
             THEN [raised |-> "IndexError", index |-> <<index>>, pos |-> 0]
             ELSE [raised |-> "none", index |-> <<index>>,
                   pos |-> ListPos(index, len)]

\* Mutant of InsertResizes: the table grows one insert later, when the load
\* factor is above the threshold by one entry.
InsertResizesLate(st, f) ==
    IF st.capacity > 0 THEN (st.size - 1) * f.den >= f.num * st.capacity
                       ELSE 0 >= f.num

\* Mutant of InsertResizes: the threshold test is > instead of >=.
InsertResizesStrict(st, f) ==
    IF st.capacity > 0 THEN st.size * f.den > f.num * st.capacity
                       ELSE 0 > f.num

\* insert: "if self._get_load_factor() >= self.max_load_factor"
InsertResizes(st, f) == LoadFactorGE(st, f)

\* Mutant of InsertCall: self.size is incremented on a value update too.
InsertCallCountsUpdate(st, f, key, value, c) ==
    LET resizes == InsertResizes(st, f)
        st1 == IF resizes THEN Resize(st, st.capacity * 2, c) ELSE st
        loc == Locate(st1, key)
    IN  IF loc.raised # "none"
        THEN Outcome(st1, None, loc.raised, loc.index, FALSE, resizes)
        ELSE LET pos == loc.pos
                 chain == st1.table[pos]
                 i == FindKey(chain, key)
             IN  IF i > 0
                 THEN Outcome([st1 EXCEPT
                                 !.table[pos] = SetEntry(chain, i, key, value),
                                 !.size = @ + 1],
                              None, "none", loc.index, TRUE, resizes)
                 ELSE Outcome([st1 EXCEPT
                                 !.table[pos] = Append(chain, <<key, value>>),
                                 !.num_collisions =
                                     @ + (IF Len(chain) > 0 THEN 1 ELSE 0),
                                 !.size = @ + 1],
                              None, "none", loc.index, FALSE, resizes)

\* Mutant of InsertCall: the key is placed first and the load factor is
\* tested on the table that holds it.
InsertCallPlacesFirst(st, f, key, value, c) ==
    LET loc == Locate(st, key)
    IN  IF loc.raised # "none"
        THEN Outcome(st, None, loc.raised, loc.index, FALSE, FALSE)
        ELSE LET pos == loc.pos
                 chain == st.table[pos]
                 i == FindKey(chain, key)
                 st1 == IF i > 0
                        THEN [st EXCEPT
                                !.table[pos] = SetEntry(chain, i, key, value)]
                        ELSE [st EXCEPT
                                !.table[pos] = Append(chain, <<key, value>>),
                                !.num_collisions =
                                    @ + (IF Len(chain) > 0 THEN 1 ELSE 0),
                                !.size = @ + 1]
                 resizes == InsertResizes(st1, f)
                 st2 == IF resizes THEN Resize(st1, st1.capacity * 2, c)
                                   ELSE st1
             IN  Outcome(st2, None, "none",
                         IF resizes THEN <<Hash(st2.hash_func, key)>>
                                    ELSE loc.index,
                         i > 0, resizes)

\* Mutant of InsertCall: a value update counts a collision as the append
\* of a new key does, its chain being non-empty.
InsertCallUpdateCollides(st, f, key, value, c) ==
    LET resizes == InsertResizes(st, f)
        st1 == IF resizes THEN Resize(st, st.capacity * 2, c) ELSE st
        loc == Locate(st1, key)
    IN  IF loc.raised # "none"
        THEN Outcome(st1, None, loc.raised, loc.index, FALSE, resizes)
        ELSE LET pos == loc.pos
                 chain == st1.table[pos]
                 i == FindKey(chain, key)
             IN  IF i > 0
                 THEN Outcome([st1 EXCEPT
                                 !.table[pos] = SetEntry(chain, i, key, value),
                                 !.num_collisions =
                                     @ + (IF Len(chain) > 0 THEN 1 ELSE 0)],
                              None, "none", loc.index, TRUE, resizes)
                 ELSE Outcome([st1 EXCEPT
                                 !.table[pos] = Append(chain, <<key, value>>),
                                 !.num_collisions =
                                     @ + (IF Len(chain) > 0 THEN 1 ELSE 0),
                                 !.size = @ + 1],
                              None, "none", loc.index, FALSE, resizes)

\* insert(key, value)
InsertCall(st, f, key, value, c) ==
    LET resizes == InsertResizes(st, f)
        st1 == IF resizes THEN Resize(st, st.capacity * 2, c) ELSE st
        loc == Locate(st1, key)
    IN  IF loc.raised # "none"
        THEN Outcome(st1, None, loc.raised, loc.index, FALSE, resizes)
        ELSE LET pos == loc.pos
                 chain == st1.table[pos]
                 i == FindKey(chain, key)
             IN  IF i > 0
                 THEN Outcome([st1 EXCEPT
                                 !.table[pos] = SetEntry(chain, i, key, value)],
                              None, "none", loc.index, TRUE, resizes)
                 ELSE Outcome([st1 EXCEPT
                                 !.table[pos] = Append(chain, <<key, value>>),
                                 !.num_collisions =
                                     @ + (IF Len(chain) > 0 THEN 1 ELSE 0),
                                 !.size = @ + 1],
                              None, "none", loc.index, FALSE, resizes)

\* Mutant of SearchCall: a hit moves the found entry to the front of its
\* chain.
SearchCallMoveToFront(st, key) ==
    LET loc == Locate(st, key)
    IN  IF loc.raised # "none"
        THEN Outcome(st, None, loc.raised, loc.index, FALSE, FALSE)
        ELSE LET pos == loc.pos
                 chain == st.table[pos]
                 i == FindKey(chain, key)
             IN  IF i > 0
                 THEN Outcome([st EXCEPT !.table[pos] =
                                   <<chain[i]>> \o Pop(chain, i)],
                              chain[i][2], "none", loc.index, TRUE, FALSE)
                 ELSE Outcome(st, None, "none", loc.index, FALSE, FALSE)

\* search(key)
SearchCall(st, key) ==
    LET loc == Locate(st, key)
    IN  IF loc.raised # "none"
        THEN Outcome(st, None, loc.raised, loc.index, FALSE, FALSE)
        ELSE LET chain == st.table[loc.pos]
                 i == FindKey(chain, key)
             IN  IF i > 0
                 THEN Outcome(st, chain[i][2], "none", loc.index, TRUE, FALSE)
                 ELSE Outcome(st, None, "none", loc.index, FALSE, FALSE)

\* delete: the table after "chain.pop(i); self.size -= 1" for the entry at
\* position i of the chain at pos.
Removed(st, pos, i) ==
    [st EXCEPT !.table[pos] = Pop(st.table[pos], i), !.size = @ - 1]

\* Mutant of DeleteShrinks: the test "self.size > 0" is missing.
DeleteShrinksWhenEmpty(st) ==
    LoadFactorLTShrink(st) /\ st.capacity > ShrinkFloor

\* delete: "if self.size > 0 and self._get_load_factor() < 0.25 and
\* self.capacity > 16", on the table after the removal.
DeleteShrinks(st) ==
    st.size > 0 /\ LoadFactorLTShrink(st) /\ st.capacity > ShrinkFloor

\* delete(key) reaches self._resize(self.capacity // 2).
DeleteResizes(st, key) ==
    LET loc == Locate(st, key)
    IN  /\ loc.raised = "none"
        /\ LET i == FindKey(st.table[loc.pos], key)
           IN  i > 0 /\ DeleteShrinks(Removed(st, loc.pos, i))

\* Mutant of DeleteCall: the shrink test also runs when the key is absent.
DeleteCallShrinksOnMiss(st, key, c) ==
    LET loc == Locate(st, key)
    IN  IF loc.raised # "none"
        THEN Outcome(st, None, loc.raised, loc.index, FALSE, FALSE)
        ELSE LET i == FindKey(st.table[loc.pos], key)
                 st1 == IF i = 0 THEN st ELSE Removed(st, loc.pos, i)
             IN  IF DeleteShrinks(st1)
                 THEN Outcome(Resize(st1, st1.capacity \div 2, c),
                              i > 0, "none", loc.index, i > 0, TRUE)
                 ELSE Outcome(st1, i > 0, "none", loc.index, i > 0, FALSE)

\* delete(key)
DeleteCall(st, key, c) ==
    LET loc == Locate(st, key)
    IN  IF loc.raised # "none"
        THEN Outcome(st, None, loc.raised, loc.index, FALSE, FALSE)
        ELSE LET i == FindKey(st.table[loc.pos], key)
                 st1 == Removed(st, loc.pos, i)
             IN  IF i = 0
                 THEN Outcome(st, FALSE, "none", loc.index, FALSE, FALSE)
                 ELSE IF DeleteShrinks(st1)
                      THEN Outcome(Resize(st1, st1.capacity \div 2, c),
                                   TRUE, "none", loc.index, TRUE, TRUE)
                      ELSE Outcome(st1, TRUE, "none", loc.index, TRUE, FALSE)

\* sum(chain_lengths)
RECURSIVE SumLen(_, _)
SumLen(t, i) == IF i > Len(t) THEN 0 ELSE Len(t[i]) + SumLen(t, i + 1)

\* max(chain_lengths) if chain_lengths else 0
MaxLen(t) ==
    IF Len(t) = 0 THEN 0
    ELSE CHOOSE n \in {Len(t[i]) : i \in 1..Len(t)} :
            \A i \in 1..Len(t) : Len(t[i]) <= n

\* The dict get_statistics() returns; the two float quotients are kept as
\* <<numerator, denominator>> pairs, <<0, 1>> where the code returns 0.
Statistics(st) ==
    LET non_empty == Cardinality({i \in 1..Len(st.table) : Len(st.table[i]) > 0})
    IN  [size |-> st.size,
         capacity |-> st.capacity,
         load_factor |-> IF st.capacity > 0 THEN <<st.size, st.capacity>>
                                            ELSE <<0, 1>>,
         num_collisions |-> st.num_collisions,
         num_resizes |-> st.num_resizes,
         max_chain_length |-> MaxLen(st.table),
         avg_chain_length |-> IF Len(st.table) > 0
                              THEN <<SumLen(st.table, 1), Len(st.table)>>
                              ELSE <<0, 1>>,
         non_empty_chains |-> non_empty,
         empty_chains |-> st.capacity - non_empty]

\* get_statistics()
GetStatisticsCall(st) ==
    Outcome(st, Statistics(st), "none", <<>>, FALSE, FALSE)

\* ------------------------------------------------------------- transitions
\* The history of a call on the key (and value) with outcome r.
Called(op, key, value, r) ==
    [op |-> op, key |-> key, value |-> value, result |-> r.result,
     raised |-> r.raised, index |-> r.index, existed |-> r.existed,
     resized |-> r.resized]

NoCall ==
    Called("__init__", 0, None, Outcome(<<>>, None, "none", <<>>, FALSE, FALSE))

\* The state after HashTableChaining(cap, f): __init__ validates nothing and
\* raises nothing, whatever the arguments.
Constructed(cap, f, c) ==
    LET t == NewTable(cap, c)
    IN  /\ capacity = t.capacity
        /\ max_load_factor = f
        /\ size = t.size
        /\ table = t.table
        /\ hash_func = t.hash_func
        /\ num_collisions = t.num_collisions
        /\ num_resizes = t.num_resizes
        /\ initial_capacity = cap
        /\ call = NoCall
        /\ shadow = [k \in Keys |-> None]

\* No call of randomized_quicksort is under way.
NoSort == arr = <<>> /\ work = <<>>

\* Tables constructed with a positive capacity and a positive load factor.
Init ==
    /\ \E args \in ValidArgs, c \in Coeffs : Constructed(args[1], args[2], c)
    /\ NoSort

\* Tables constructed with any arguments, the invalid ones included.
InitAny ==
    /\ \E args \in ValidArgs \cup InvalidArgs, c \in Coeffs :
          Constructed(args[1], args[2], c)
    /\ NoSort

\* The table fields after a call that left the table st.
Becomes(st) ==
    /\ capacity' = st.capacity
    /\ size' = st.size
    /\ table' = st.table
    /\ hash_func' = st.hash_func
    /\ num_collisions' = st.num_collisions
    /\ num_resizes' = st.num_resizes
    /\ UNCHANGED <<max_load_factor, initial_capacity, arr, work>>

Abs(n) == IF n < 0 THEN 0 - n ELSE n

\* The bounds of the model on a call that leaves the table st.
WithinBounds(st) ==
    /\ st.num_resizes <= MaxResizes
    /\ st.num_collisions <= MaxCollisions
    /\ Abs(st.capacity) <= MaxCapacity

\* The coefficient pairs a call may draw: a call that constructs no hash
\* function draws none, and one pair stands for its single outcome.
Draws(resizes) == IF resizes THEN Coeffs ELSE {CHOOSE c \in Coeffs : TRUE}

Insert(key, value) ==
    \E c \in Draws(InsertResizes(Self, max_load_factor)) :
        \E r \in {InsertCall(Self, max_load_factor, key, value, c)} :
            /\ WithinBounds(r.st)
            /\ Becomes(r.st)
            /\ call' = Called("insert", key, value, r)
            /\ shadow' = IF r.raised = "none"
                         THEN [shadow EXCEPT ![key] = value] ELSE shadow

Search(key) ==
    \E r \in {SearchCall(Self, key)} :
        /\ Becomes(r.st)
        /\ call' = Called("search", key, None, r)
        /\ UNCHANGED shadow

Delete(key) ==
    \E c \in Draws(DeleteResizes(Self, key)) :
        \E r \in {DeleteCall(Self, key, c)} :
            /\ WithinBounds(r.st)
            /\ Becomes(r.st)
            /\ call' = Called("delete", key, None, r)
            /\ shadow' = IF r.raised = "none"
                         THEN [shadow EXCEPT ![key] = None] ELSE shadow

GetStatistics ==
    \E r \in {GetStatisticsCall(Self)} :
        /\ Becomes(r.st)
        /\ call' = Called("get_statistics", 0, None, r)
        /\ UNCHANGED shadow

Next ==
    \/ \E key \in Keys, value \in Values : Insert(key, value)
    \/ \E key \in Keys : Search(key)
    \/ \E key \in Keys : Delete(key)
    \/ GetStatistics

Spec == Init /\ [][Next]_vars

SpecCtor == InitAny /\ [][Next]_vars

\* ------------------------------------------- the table built with defaults
\* HashTableChaining(): the table of the default arguments.  Its calls keep
\* the resident keys a prefix 1..size of the keys: insert takes a resident
\* key or the next new one, delete the last resident key or the next new
\* (absent) one, so that size runs through every value up and down.
InitDefaults ==
    /\ \E c \in DefaultCoeffs :
          Constructed(DefaultCapacity, DefaultMaxLoadFactor, c)
    /\ NoSort

DefaultKeys == 1..MaxDefaultKeys

WithinDefaultBounds(st) ==
    /\ st.num_resizes <= MaxDefaultResizes
    /\ st.num_collisions <= MaxDefaultCollisions
    /\ Abs(st.capacity) <= MaxCapacity

DefaultDraws(resizes) ==
    IF resizes THEN DefaultCoeffs ELSE {CHOOSE c \in DefaultCoeffs : TRUE}

DefaultsInsert(key) ==
    /\ key <= size + 1
    /\ \E c \in DefaultDraws(InsertResizes(Self, max_load_factor)) :
          \E r \in {InsertCall(Self, max_load_factor, key, Value(1), c)} :
              /\ WithinDefaultBounds(r.st)
              /\ Becomes(r.st)
              /\ call' = Called("insert", key, Value(1), r)
              /\ UNCHANGED shadow

DefaultsDelete(key) ==
    /\ key \in {size, size + 1}
    /\ \E c \in DefaultDraws(DeleteResizes(Self, key)) :
          \E r \in {DeleteCall(Self, key, c)} :
              /\ WithinDefaultBounds(r.st)
              /\ Becomes(r.st)
              /\ call' = Called("delete", key, None, r)
              /\ UNCHANGED shadow

NextDefaults ==
    \/ \E key \in DefaultKeys : DefaultsInsert(key)
    \/ \E key \in DefaultKeys : DefaultsDelete(key)

SpecDefaults == InitDefaults /\ [][NextDefaults]_vars

\* ------------------------------------------------------ randomized_quicksort
\* The lists randomized_quicksort is called on.
SortInputs == UNION {[1..n -> 1..MaxSortVal] : n \in 0..MaxSortLen}

\* [x for x in arr if x < pivot]
Less(a, pivot) == SelectSeq(a, LAMBDA x : x < pivot)

\* Mutant of Equal: the pivot once, without its duplicates.
EqualOnce(a, pivot) == <<pivot>>

\* [x for x in arr if x == pivot]
Equal(a, pivot) == SelectSeq(a, LAMBDA x : x = pivot)

\* [x for x in arr if x > pivot]
Greater(a, pivot) == SelectSeq(a, LAMBDA x : x > pivot)

\* A part of the result: the argument of a recursive call that has not
\* started, or a list some call has produced.
ToSort(a) == [pending |-> TRUE, items |-> a]
Produced(a) == [pending |-> FALSE, items |-> a]

\* "randomized_quicksort(less) + equal + randomized_quicksort(greater)":
\* the operands are evaluated left to right, so the next call to run is the
\* leftmost one that has not started (0: none is left).
NextCall(w) ==
    IF \E i \in 1..Len(w) : w[i].pending
    THEN CHOOSE i \in 1..Len(w) :
            w[i].pending /\ \A j \in 1..(i - 1) : ~w[j].pending
    ELSE 0

\* The parts of w with part i replaced by the parts in by.
Splice(w, i, by) == SubSeq(w, 1, i - 1) \o by \o SubSeq(w, i + 1, Len(w))

\* The outermost call randomized_quicksort(a) is made.
SortCalled(a) == arr = a /\ work = <<ToSort(a)>>

\* "if len(arr) <= 1: return arr"
SortBase ==
    /\ NextCall(work) > 0
    /\ Len(work[NextCall(work)].items) <= 1
    /\ work' = Splice(work, NextCall(work),
                      <<Produced(work[NextCall(work)].items)>>)
    /\ UNCHANGED <<tableVars, initial_capacity, call, shadow, arr>>

\* "pivot = random.choice(arr)" and the three comprehensions; the two
\* recursive calls are left to come, equal is a list produced.
SortPartition ==
    /\ NextCall(work) > 0
    /\ \E a \in {work[NextCall(work)].items} :
          /\ Len(a) > 1
          /\ \E pivot \in {a[j] : j \in 1..Len(a)} :
                work' = Splice(work, NextCall(work),
                               <<ToSort(Less(a, pivot)),
                                 Produced(Equal(a, pivot)),
                                 ToSort(Greater(a, pivot))>>)
    /\ UNCHANGED <<tableVars, initial_capacity, call, shadow, arr>>

NextSort == SortBase \/ SortPartition

\* The hash table is not involved in a sort: it is a table just constructed
\* with the default arguments and stays untouched.
InitSort ==
    /\ Constructed(16, Frac(3, 4), CHOOSE c \in Coeffs : TRUE)
    /\ \E a \in SortInputs : SortCalled(a)

\* Every call that can run eventually runs: the interpreter executes the
\* function step after step.
SpecSort == InitSort /\ [][NextSort]_vars /\ WF_vars(NextSort)

\* The outermost call has returned: no call is left to run.
SortReturned == work # <<>> /\ NextCall(work) = 0

\* The list the outermost call returns: the parts, concatenated.
RECURSIVE SortResult(_)
SortResult(w) ==
    IF w = <<>> THEN <<>> ELSE Head(w).items \o SortResult(Tail(w))

\* ------------------------------------------------------------- properties
\* What search(key) returns on the table st.
Lookup(st, key) == SearchCall(st, key).result

\* What search(key) returns in the current state.
LookupNow(key) == Lookup(Self, key)

\* search(key) returns (raises nothing) in the current state.
SearchReturns(key) == SearchCall(Self, key).raised = "none"

\* The keys resident in the table, over all chains.
ResidentKeys ==
    UNION {{table[i][j][1] : j \in 1..Len(table[i])} : i \in 1..Len(table)}

\* The last call was op and returned.
Returned(op) == call.op = op /\ call.raised = "none"

\* C1: after any sequence of calls, every key whose last insert was not
\* followed by a delete of it is found by search with the value of that last
\* insert, growth resizes and repeated inserts of the key included.
InsertSearchRoundTrip ==
    \A k \in Keys :
        shadow[k] # None => SearchReturns(k) /\ LookupNow(k) = shadow[k]

\* A second insert of a key, after a growth, in a table of several keys.
InsertSearchRoundTripWitness ==
    /\ Returned("insert") /\ call.existed
    /\ capacity > initial_capacity
    /\ size >= 2
    /\ LookupNow(call.key) = call.value

\* C2: a delete(key) that returns True leaves search(key) not-found, shrink
\* or not, and a not-found key stays not-found until insert(key) is called.
DeleteThenNotFound ==
    [][\A next \in {Self'} : \A k \in Keys :
         (\/ call'.op = "delete" /\ call'.key = k /\ call'.raised = "none"
                /\ call'.result = TRUE
          \/ LookupNow(k) = None /\ ~(call'.op = "insert" /\ call'.key = k))
         => Lookup(next, k) = None]_vars

\* A delete that removed a key and shrank a table that keeps other keys.
DeleteThenNotFoundWitness ==
    /\ Returned("delete") /\ call.result = TRUE /\ call.resized
    /\ size >= 1
    /\ LookupNow(call.key) = None

\* C3: size is the number of distinct resident keys and the sum of the chain
\* lengths, so avg_chain_length of get_statistics equals size / capacity.
SizeIsEntryCount ==
    /\ size = Cardinality(ResidentKeys)
    /\ size = SumLen(table, 1)
    /\ LET avg == Statistics(Self).avg_chain_length
       IN  avg[1] * capacity = size * avg[2]

\* A table back at its initial capacity after a growth and a shrink, with
\* a key left in it.
SizeIsEntryCountWitness ==
    /\ num_resizes >= 2
    /\ capacity = initial_capacity
    /\ Returned("delete") /\ call.resized
    /\ size >= 1

\* C4 as stated: after an insert returns, size / capacity < max_load_factor.
LoadFactorBelowMaxAfterInsert ==
    Returned("insert") =>
        size * max_load_factor.den < max_load_factor.num * capacity

\* C4 as amended: after an insert that did not resize returns, the load
\* factor before the key was placed was below max_load_factor, that is
\* (size - 1) / capacity < max_load_factor if the key was new and
\* size / capacity < max_load_factor if it was already present.
LoadFactorBelowMaxBeforePlacing ==
    [][(call'.op = "insert" /\ call'.raised = "none" /\ ~call'.resized) =>
         IF call'.existed
         THEN size' * max_load_factor.den < max_load_factor.num * capacity'
         ELSE (size' - 1) * max_load_factor.den
                  < max_load_factor.num * capacity']_vars

\* An insert of a new key without resize that leaves the load factor at or
\* above max_load_factor.
LoadFactorBelowMaxBeforePlacingWitness ==
    /\ Returned("insert") /\ ~call.resized /\ ~call.existed
    /\ size * max_load_factor.den >= max_load_factor.num * capacity

\* delete: the table after the removal of the key, before the shrink test.
RemovedKey(st, key) ==
    LET pos == Locate(st, key).pos
    IN  Removed(st, pos, FindKey(st.table[pos], key))

\* C5: a resize keeps the mapping: on the table as _resize finds it
\* (insert: at call time; delete: after the removal) and as it leaves it,
\* search returns the same for every key, and after the call every key other
\* than the one inserted (deleted) still maps to what it mapped to.
ResizePreservesMapping ==
    [][(call'.resized /\ call'.raised = "none") =>
         \A before \in {IF call'.op = "insert" THEN Self
                        ELSE RemovedKey(Self, call'.key)} :
         \A after \in {Resize(before, capacity',
                              <<hash_func'.a, hash_func'.b>>)} :
         \A next \in {Self'} :
             /\ \A k \in Keys :
                  /\ SearchCall(after, k).raised = "none"
                  /\ Lookup(after, k) = Lookup(before, k)
             /\ \A k \in Keys \ {call'.key} : Lookup(next, k) = LookupNow(k)
             /\ Lookup(next, call'.key) =
                  (IF call'.op = "insert" THEN call'.value ELSE None)]_vars

\* A shrink that rehashed several keys into one chain.
ResizePreservesMappingWitness ==
    /\ Returned("delete") /\ call.resized
    /\ Cardinality(ResidentKeys) >= 2
    /\ Statistics(Self).max_chain_length >= 2

\* C6: an insert of a key that is present with a different value leaves size
\* unchanged and makes search return the new value, also when the insert
\* resizes first.
UpdateKeepsSize ==
    [][(/\ call'.op = "insert" /\ call'.raised = "none"
        /\ LookupNow(call'.key) # None
        /\ LookupNow(call'.key) # call'.value) =>
         \A next \in {Self'} :
             next.size = size /\ Lookup(next, call'.key) = call'.value]_vars

\* An update that went through a growth resize.
UpdateKeepsSizeWitness ==
    /\ Returned("insert") /\ call.existed /\ call.resized
    /\ shadow[call.key] = call.value

\* C7: the constructor rejects initial_capacity <= 0 and
\* max_load_factor <= 0: with such arguments the only state is the one of
\* the constructor having raised.
ConstructorRejectsInvalid ==
    (initial_capacity <= 0 \/ max_load_factor.num <= 0) =>
        call.op = "__init__" /\ call.raised # "none"

\* C8: search and get_statistics change no field of the table and never
\* resize.
ReadsArePure ==
    [][call'.op \in {"search", "get_statistics"} =>
         UNCHANGED tableVars /\ ~call'.resized]_vars

\* A search that found its key behind another entry of the same chain.
ReadsArePureWitness ==
    /\ Returned("search") /\ call.existed
    /\ FindKey(table[Locate(Self, call.key).pos], call.key) >= 2

\* C9: delete of a key that is not stored returns False, raises nothing and
\* changes no field of the table.
DeleteAbsentIsNoOp ==
    [][(call'.op = "delete" /\ LookupNow(call'.key) = None) =>
         /\ call'.raised = "none"
         /\ call'.result = FALSE
         /\ UNCHANGED tableVars]_vars

\* A delete of an absent key on a table that meets the shrink condition.
DeleteAbsentIsNoOpWitness ==
    /\ Returned("delete") /\ call.result = FALSE
    /\ DeleteShrinks(Self)

\* Keys the hash function is probed with, besides the keys of the calls.
HashProbe == {0 - 4, 0 - 3, 0 - 2, 0 - 1, 0, 1, 2, 3, 4}

\* idx is ((a * key + b) mod p) mod m, with the remainder modulo p obtained
\* by adding or subtracting p once (the probes keep -p <= a*key + b < 2p).
ExactIndex(hf, key, idx) ==
    LET x == hf.a * key + hf.b
        r == IF x < 0 THEN x + hf.p ELSE IF x >= hf.p THEN x - hf.p ELSE x
    IN  /\ 0 <= r /\ r < hf.p
        /\ 0 <= idx /\ idx < hf.m
        /\ (r - idx) % hf.m = 0

IsSorted(s) == \A i \in 1..(Len(s) - 1) : s[i] <= s[i + 1]

\* The number of occurrences of x in s.
Count(s, x) == Cardinality({i \in 1..Len(s) : s[i] = x})

\* s and t hold the same elements with the same multiplicities.
IsPermutation(s, t) ==
    /\ Len(s) = Len(t)
    /\ \A x \in 1..MaxSortVal : Count(s, x) = Count(t, x)

\* C11: randomized_quicksort(arr) returns, whatever pivots are drawn, and
\* the list it returns is in non-decreasing order and a permutation of arr,
\* duplicates kept; empty, one-element and sorted inputs included.
QuicksortSortsAndTerminates ==
    /\ <>SortReturned
    /\ [](SortReturned =>
            \A res \in {SortResult(work)} :
                IsSorted(res) /\ IsPermutation(res, arr))

\* A sort that has returned for an unsorted input with a duplicate.
QuicksortSortsAndTerminatesWitness ==
    /\ SortReturned
    /\ Len(arr) >= 3
    /\ ~IsSorted(arr)
    /\ \E x \in 1..MaxSortVal : Count(arr, x) >= 2
    /\ SortResult(work) # arr

\* hash(key) of the hash function hf, as the call history records it.
IndexOf(hf, key) == <<Hash(hf, key)>>

\* C12: insert tests the load factor of the table as it is when called: if
\* size / capacity >= max_load_factor, capacity becomes 2 * capacity in one
\* resize, the hash function is one for the new capacity and the key is
\* placed in the chain that function gives; otherwise capacity and the hash
\* function stay.  With the defaults, while capacity is 16 an insert of a
\* new key does not resize at sizes 0..11 (the first 12 inserts) and
\* resizes to 32 at size 12 (the 13th).
InsertResizesBeforePlacing ==
    [][(call'.op = "insert" /\ call'.raised = "none") =>
         /\ IF size * max_load_factor.den >= max_load_factor.num * capacity
            THEN /\ call'.resized
                 /\ capacity' = 2 * capacity
                 /\ num_resizes' = num_resizes + 1
                 /\ hash_func'.m = capacity'
                 /\ Len(table') = capacity'
                 /\ call'.index = IndexOf(hash_func', call'.key)
            ELSE /\ ~call'.resized
                 /\ capacity' = capacity
                 /\ hash_func' = hash_func
                 /\ num_resizes' = num_resizes
                 /\ call'.index = IndexOf(hash_func, call'.key)
         /\ FindKey(table'[call'.index[1] + 1], call'.key) > 0
         /\ (capacity = DefaultCapacity /\ ~call'.existed) =>
               /\ size < 12 => capacity' = DefaultCapacity
               /\ size = 12 => capacity' = 32]_vars

\* The 13th key went into the default table: one resize, capacity 32, and
\* all 13 keys are found.
InsertResizesBeforePlacingWitness ==
    /\ Returned("insert") /\ call.resized /\ ~call.existed
    /\ num_resizes = 1 /\ capacity = 32 /\ size = 13
    /\ \A k \in 1..13 : LookupNow(k) = Value(1)

CapacityNeverBelowFloor ==
    /\ [](capacity > 0)
    /\ [][capacity' # capacity =>
            \/ call'.op = "insert" /\ capacity' = 2 * capacity
            \/ /\ call'.op = "delete"
               /\ capacity' = capacity \div 2
               /\ capacity' >= ShrinkFloor]_vars

\* What holds of C14 in the code: capacity stays positive and changes only
\* by doubling in insert and by halving in delete; a shrink halves a
\* capacity above 16, which leaves at least 8 buckets.
CapacityDoublesOrHalves ==
    /\ [](capacity > 0)
    /\ [][capacity' # capacity =>
            \/ call'.op = "insert" /\ capacity' = 2 * capacity
            \/ /\ call'.op = "delete"
               /\ capacity > ShrinkFloor
               /\ capacity' = capacity \div 2
               /\ 2 * capacity' >= ShrinkFloor]_vars

\* A shrink has left the table with fewer than 16 buckets.
CapacityDoublesOrHalvesWitness ==
    /\ Returned("delete") /\ call.resized
    /\ capacity < ShrinkFloor
    /\ size >= 1

\* The places <<chain, position>> of the table that hold an entry.
Places == {<<i, j>> \in (1..Len(table)) \X (1..MaxLen(table)) :
             j <= Len(table[i])}

\* C15: in every reachable state each key is stored at most once: no two
\* places of the table, in one chain or in two, hold the same key.
KeysAreUnique ==
    \A x \in Places, y \in Places :
        table[x[1]][x[2]][1] = table[y[1]][y[2]][1] => x = y

\* An insert of a resident key into a table that was rehashed and has a
\* chain of two entries.
KeysAreUniqueWitness ==
    /\ Returned("insert") /\ call.existed
    /\ num_resizes >= 1
    /\ MaxLen(table) >= 2

\* C16: after construction and after every call, the table has capacity
\* chains, the modulus of the hash function is capacity and every pair is
\* in the chain hash(key) of that function; a resize installs a hash
\* function the constructor builds for the new capacity (prime p, a and b
\* drawn), and a call that does not resize leaves the function as it is.
PairsSitInTheirChains ==
    /\ [](/\ Len(table) = capacity
          /\ hash_func.m = capacity
          /\ \A x \in Places :
                Hash(hash_func, table[x[1]][x[2]][1]) + 1 = x[1])
    /\ [][IF call'.resized
          THEN \E c \in Coeffs \cup DefaultCoeffs :
                   hash_func' = UniversalHashFunction(capacity', c)
          ELSE hash_func' = hash_func]_vars

\* A resize has changed the capacity of a table in which two keys share a
\* chain.
PairsSitInTheirChainsWitness ==
    /\ call.resized /\ call.raised = "none"
    /\ capacity # initial_capacity
    /\ size >= 2
    /\ MaxLen(table) >= 2

\* The number of non-empty chains of the table t.
NonEmptyChains(t) == Cardinality({i \in 1..Len(t) : Len(t[i]) > 0})

\* C17 as stated: an insert of a key that is present leaves num_collisions
\* as it was before the call.
UpdateCountsNoCollision ==
    [][(call'.op = "insert" /\ call'.raised = "none" /\ call'.existed) =>
         num_collisions' = num_collisions]_vars

\* C17 as amended: an insert of a key that is present leaves num_collisions
\* as it was when the insert does not resize; when it resizes first, the
\* counter grows by the collisions of the rehash, the number of stored
\* entries minus the number of non-empty chains of the new table, and the
\* replacement of the value adds nothing.
UpdateCountsOnlyRehashCollisions ==
    [][(call'.op = "insert" /\ call'.raised = "none" /\ call'.existed) =>
         /\ size' = size
         /\ num_collisions' = num_collisions +
               (IF call'.resized THEN size' - NonEmptyChains(table') ELSE 0)]_vars

\* An insert of a resident key resized first and the rehash put two keys
\* into one chain.
UpdateCountsOnlyRehashCollisionsWitness ==
    /\ Returned("insert") /\ call.existed /\ call.resized
    /\ size - NonEmptyChains(table) >= 1

\* C18: num_collisions changes only by the appends of new keys.  A call
\* that does not resize adds 1 when it is an insert that appends a new key
\* to a chain that was non-empty, and 0 otherwise; a call that resizes
\* adds, over the rehash and the placing of a new key, the number of stored
\* entries minus the number of non-empty chains of the table it leaves.
\* The counter is never reset and never decreases.
CollisionsCountAppends ==
    [][/\ num_collisions' >= num_collisions
       /\ num_collisions' - num_collisions =
            (IF call'.resized
             THEN size' - NonEmptyChains(table')
             ELSE IF call'.op = "insert" /\ call'.raised = "none"
                     /\ ~call'.existed
                     /\ Len(table[call'.index[1] + 1]) > 0
                  THEN 1
                  ELSE 0)]_vars

\* A delete has shrunk the table, and the rehash counted a collision on
\* top of one counted before.
CollisionsCountAppendsWitness ==
    /\ Returned("delete") /\ call.resized
    /\ size - NonEmptyChains(table) >= 1
    /\ num_collisions >= 2

\* C19: num_resizes counts the changes of capacity since construction: it
\* is 0 after construction, a call that resizes changes capacity once (to
\* its double or its half) and adds exactly 1, any other call leaves
\* capacity and num_resizes alone, and neither counter ever decreases.
ResizesCountCapacityChanges ==
    /\ [](num_resizes = 0 => capacity = initial_capacity)
    /\ [][/\ call'.resized <=> capacity' # capacity
           /\ num_resizes' = num_resizes + (IF capacity' # capacity THEN 1 ELSE 0)
           /\ capacity' \in {capacity, 2 * capacity, capacity \div 2}
           /\ num_collisions' >= num_collisions]_vars

\* Two inserts have each doubled the capacity once.
ResizesCountCapacityChangesWitness ==
    /\ Returned("insert") /\ call.resized
    /\ num_resizes = 2
    /\ capacity = 4 * initial_capacity

\* 16 * 2^k for the k of 0..n.
RECURSIVE DefaultCapacities(_)
DefaultCapacities(n) ==
    IF n = 0 THEN {DefaultCapacity}
    ELSE {2 * c : c \in DefaultCapacities(n - 1)} \cup {DefaultCapacity}

\* C20: the table built with the defaults (capacity 16, max_load_factor
\* 0.75) keeps size / capacity <= 0.75 and a capacity 16 * 2^k, k >= 0,
\* through every insert and delete; an insert that follows a delete which
\* shrank the table does not grow it.
DefaultsKeepLoadFactor ==
    /\ [](/\ size * 4 <= 3 * capacity
          /\ capacity \in DefaultCapacities(MaxDefaultResizes))
    /\ [][(call.op = "delete" /\ call.resized /\ call'.op = "insert") =>
            ~call'.resized /\ capacity' = capacity]_vars

\* An insert into the default table after a delete shrank it from 32 to 16.
DefaultsKeepLoadFactorWitness ==
    /\ Returned("insert") /\ ~call.existed /\ ~call.resized
    /\ num_resizes = 2 /\ capacity = DefaultCapacity
    /\ size = 8

====
